---- MODULE Spec2Model ----
(***************************************************************************)
(* One invocation of lambda_handler of                                     *)
(* lambda-ecs/step-function/05.group-entities/index.py: validation, the    *)
(* reference loop (get_item, json.loads, bucketing, create_edge), the      *)
(* Neptune step (GraphConnect, attribute flattening, getOrCreateID,        *)
(* connection.close) and the result loop (uuid4, put_item).                *)
(*                                                                         *)
(* The record store, the graph service, the uuid generator and the clock   *)
(* are external: their answers are chosen with \E in the action that       *)
(* calls them.  A store call either answers or raises ClientError, the     *)
(* exception the handler names for it; GraphConnect and getOrCreateID      *)
(* either return or raise.  Exceptions that the decoded data itself makes  *)
(* the handler raise (KeyError, TypeError, AttributeError) are computed    *)
(* from the data.                                                          *)
(***************************************************************************)
EXTENDS Naturals, Sequences, FiniteSets, TLC

\* ------------------------------------------------------------- bounds
\* Longest reference list (event["output"]) explored.
MaxRefs == 2
\* Most (entity key, descriptor) pairs in one stored record.
MaxPairs == 2
\* Most pairs in the stored records of one batch taken together.
MaxSeen == 3
\* Longest qualifier list (PRODUCTS_USED, RELATIONSHIP, COMPETING_IN, ROLE)
\* handed to create_edge on its own.
MaxVals == 2

\* ------------------------------------------------- program constants
\* index.py:130, the time-to-live added to the write time.
TTL == 7200

\* ------------------------------------------------------ characters
LowerCase == <<"a", "b", "c", "d", "e", "f", "g", "h", "i", "j", "k", "l", "m",
               "n", "o", "p", "q", "r", "s", "t", "u", "v", "w", "x", "y", "z">>
UpperCase == <<"A", "B", "C", "D", "E", "F", "G", "H", "I", "J", "K", "L", "M",
               "N", "O", "P", "Q", "R", "S", "T", "U", "V", "W", "X", "Y", "Z">>

Range(s) == {s[i] : i \in DOMAIN s}

\* str.isalpha() and str.upper() follow Unicode: letters outside a-z and A-Z
\* are alphabetic too and have an upper case of their own.  One such letter
\* stands for them.
OtherLower == <<"é">>
OtherUpper == <<"É">>

Lower == LowerCase \o OtherLower
Capital == UpperCase \o OtherUpper

Letters == Range(Lower) \cup Range(Capital)

\* The upper case of each lower-case letter.
UpperOf ==
    [c \in Range(Lower) |-> Capital[CHOOSE i \in DOMAIN Lower : Lower[i] = c]]

\* str.isalpha() on one character.
IsAlpha(c) == c \in Letters

\* str.upper() on one character.
Upper(c) == IF c \in DOMAIN UpperOf THEN UpperOf[c] ELSE c

\* A Python str held as its sequence of characters, and the text it spells.
RECURSIVE Text(_)
Text(cs) == IF cs = <<>> THEN "" ELSE Head(cs) \o Text(Tail(cs))

\* ",".join(values)
RECURSIVE Join(_)
Join(values) ==
    IF values = <<>> THEN ""
    ELSE IF Len(values) = 1 THEN values[1]
    ELSE values[1] \o "," \o Join(Tail(values))

\* index.py:70, the bucket key of a non-empty entity key.
BucketKey(key) == IF IsAlpha(key[1]) THEN Upper(key[1]) ELSE "#"

\* ------------------------------------------------------ descriptors
NoFields == [q \in {} |-> <<>>]

\* A decoded descriptor: isMap is FALSE for a JSON value that is no object;
\* tk says whether TYPE is absent, a string (TYPE holds it) or a non-empty
\* list; quals maps the qualifier fields present to their lists.
Desc(isMap, tk, type, quals) ==
    [isMap |-> isMap, tk |-> tk, TYPE |-> type, quals |-> quals]

dNotMap     == Desc(FALSE, "absent", "", NoFields)
dNoType     == Desc(TRUE, "absent", "", NoFields)
dUnknown    == Desc(TRUE, "str", "PARTNER", NoFields)
dListType   == Desc(TRUE, "list", "", NoFields)
dCustomer   == Desc(TRUE, "str", "CUSTOMER", "PRODUCTS_USED" :> <<"S3", "EC2">>)
dSupplier   == Desc(TRUE, "str", "SUPPLIER", "RELATIONSHIP" :> <<"Parts">>)
dDirector   == Desc(TRUE, "str", "DIRECTOR", "ROLE" :> <<"CEO">>)
dNoQual     == Desc(TRUE, "str", "CUSTOMER", NoFields)

kBob   == <<"B", "o", "b">>
kBea   == <<"b", "e", "a">>
k3M    == <<"3", "M">>
kElan  == <<"é", "l", "a", "n">>
kEmpty == <<>>

Pair(key, desc) == [key |-> key, desc |-> desc]

\* The (entity key, descriptor) pairs stored records are built from.
Pairs ==
    { Pair(kBob, dDirector), Pair(kBea, dCustomer), Pair(k3M, dUnknown),
      Pair(kElan, dNoType), Pair(kEmpty, dSupplier),
      Pair(kBob, dListType), Pair(kBea, dNotMap), Pair(k3M, dNoQual) }

\* A decoded JSON object: its pairs in key order, keys distinct.
Objects ==
    { d \in UNION { [1..n -> Pairs] : n \in 0..MaxPairs } :
        \A i, j \in DOMAIN d : i # j => d[i].key # d[j].key }

\* ------------------------------------------------------ create_edge
RecognizedTypes == {"CUSTOMER", "SUPPLIER", "COMPETITOR", "DIRECTOR"}

\* The qualifier field each template of edge_mappings reads.
Qualifier(type) ==
    CASE type = "CUSTOMER" -> "PRODUCTS_USED"
      [] type = "SUPPLIER" -> "RELATIONSHIP"
      [] type = "COMPETITOR" -> "COMPETING_IN"
      [] type = "DIRECTOR" -> "ROLE"

\* Faulty variant of EdgeText: the DIRECTOR template written like the other
\* three, without the space after "ROLE:".
EdgeText_NoSpace(key, data, main_entity_name) ==
    Text(key) \o " is a "
      \o (CASE data.TYPE = "CUSTOMER" -> "customer"
            [] data.TYPE = "SUPPLIER" -> "supplier"
            [] data.TYPE = "COMPETITOR" -> "competitor"
            [] data.TYPE = "DIRECTOR" -> "director")
      \o " of (" \o Qualifier(data.TYPE) \o ":"
      \o Join(data.quals[Qualifier(data.TYPE)]) \o ") " \o main_entity_name

\* Faulty variant of EdgeText: the COMPETITOR template names the wrong field
\* in its text, and the SUPPLIER template puts the main entity first.
EdgeText_Swapped(key, data, main_entity_name) ==
    CASE data.TYPE = "CUSTOMER" ->
           Text(key) \o " is a customer of (PRODUCTS_USED:"
             \o Join(data.quals["PRODUCTS_USED"]) \o ") " \o main_entity_name
      [] data.TYPE = "SUPPLIER" ->
           main_entity_name \o " is a supplier of (RELATIONSHIP:"
             \o Join(data.quals["RELATIONSHIP"]) \o ") " \o Text(key)
      [] data.TYPE = "COMPETITOR" ->
           Text(key) \o " is a competitor of (RELATIONSHIP:"
             \o Join(data.quals["COMPETING_IN"]) \o ") " \o main_entity_name
      [] data.TYPE = "DIRECTOR" ->
           Text(key) \o " is a director of (ROLE: "
             \o Join(data.quals["ROLE"]) \o ") " \o main_entity_name

\* The four templates of edge_mappings, index.py:153-156.
EdgeText(key, data, main_entity_name) ==
    CASE data.TYPE = "CUSTOMER" ->
           Text(key) \o " is a customer of (PRODUCTS_USED:"
             \o Join(data.quals["PRODUCTS_USED"]) \o ") " \o main_entity_name
      [] data.TYPE = "SUPPLIER" ->
           Text(key) \o " is a supplier of (RELATIONSHIP:"
             \o Join(data.quals["RELATIONSHIP"]) \o ") " \o main_entity_name
      [] data.TYPE = "COMPETITOR" ->
           Text(key) \o " is a competitor of (COMPETING_IN:"
             \o Join(data.quals["COMPETING_IN"]) \o ") " \o main_entity_name
      [] data.TYPE = "DIRECTOR" ->
           Text(key) \o " is a director of (ROLE: "
             \o Join(data.quals["ROLE"]) \o ") " \o main_entity_name

\* create_edge, index.py:148-164: the exception raised ("none" when it
\* returns), whether it returned None, and the string it returned.
\* edge_mappings.get raises TypeError on an unhashable entity_type; a template
\* raises KeyError when the qualifier field it reads is missing.
create_edge(key, data, main_entity_name) ==
    IF data.tk = "list"
      THEN [err |-> "TypeError", none |-> TRUE, edge |-> ""]
    ELSE IF data.TYPE \notin RecognizedTypes
      THEN [err |-> "none", none |-> TRUE, edge |-> ""]
    ELSE IF Qualifier(data.TYPE) \notin DOMAIN data.quals
      THEN [err |-> "KeyError", none |-> TRUE, edge |-> ""]
    ELSE [err |-> "none", none |-> FALSE,
          edge |-> EdgeText(key, data, main_entity_name)]

\* index.py:74-80 on one descriptor: the exception raised, or "none", and
\* the edges appended to allEdges.  data[key].get raises AttributeError on
\* a value that is no mapping; a missing or empty TYPE is falsy.
EdgeStep(key, data, main_entity_name) ==
    IF ~data.isMap THEN [err |-> "AttributeError", edges |-> <<>>]
    ELSE IF data.tk = "absent" \/ (data.tk = "str" /\ data.TYPE = "")
      THEN [err |-> "none", edges |-> <<>>]
    ELSE LET r == create_edge(key, data, main_entity_name) IN
         IF r.err # "none" THEN [err |-> r.err, edges |-> <<>>]
         ELSE IF r.none \/ r.edge = "" THEN [err |-> "none", edges |-> <<>>]
         ELSE [err |-> "none", edges |-> <<r.edge>>]

\* Faulty variant of AddToBucket: the bucket is assigned, not appended to.
AddToBucket_Overwrite(res, first_char, pair) ==
    IF \E i \in DOMAIN res : res[i].key = first_char
    THEN [i \in DOMAIN res |->
            IF res[i].key = first_char
            THEN [res[i] EXCEPT !.items = <<pair>>]
            ELSE res[i]]
    ELSE Append(res, [key |-> first_char, items |-> <<pair>>])

\* Faulty variant of AddToBucket: the pair is put at the front of its bucket.
AddToBucket_Prepend(res, first_char, pair) ==
    IF \E i \in DOMAIN res : res[i].key = first_char
    THEN [i \in DOMAIN res |->
            IF res[i].key = first_char
            THEN [res[i] EXCEPT !.items = <<pair>> \o @]
            ELSE res[i]]
    ELSE Append(res, [key |-> first_char, items |-> <<pair>>])

\* results.setdefault(first_char, []).append({key: data[key]}), index.py:71,
\* on the insertion-ordered dict held as a sequence of buckets.
AddToBucket(res, first_char, pair) ==
    IF \E i \in DOMAIN res : res[i].key = first_char
    THEN [i \in DOMAIN res |->
            IF res[i].key = first_char
            THEN [res[i] EXCEPT !.items = Append(@, pair)]
            ELSE res[i]]
    ELSE Append(res, [key |-> first_char, items |-> <<pair>>])

\* ------------------------------------------------------ the event
\* An attribute value: a scalar string (s), a list of strings (l), or a list
\* with elements that are no strings, held by their JSON text.
Scalar(s)  == [kind |-> "str", s |-> s, l |-> <<>>]
List(l)    == [kind |-> "list", s |-> "", l |-> l]
NumList(l) == [kind |-> "numlist", s |-> "", l |-> l]

\* ",".join(value) raises TypeError on an element that is no string.
JoinRaises(attribute) ==
    \E k \in DOMAIN attribute : attribute[k].kind = "numlist"

\* Faulty variant of FlattenAttribute: a list is replaced by its first element.
FlattenAttribute_FirstOnly(attribute) ==
    [k \in DOMAIN attribute |->
        IF attribute[k].kind = "list"
        THEN Scalar(IF attribute[k].l = <<>> THEN "" ELSE attribute[k].l[1])
        ELSE attribute[k]]

\* index.py:98-100 on one attribute record: list values become joined strings.
FlattenAttribute(attribute) ==
    [k \in DOMAIN attribute |->
        IF attribute[k].kind = "list" THEN Scalar(Join(attribute[k].l))
        ELSE attribute[k]]

AttributeLists ==
    { <<>>,
      << "HQ" :> Scalar("Seattle"),
         "INDUSTRY" :> List(<<"Cloud", "Retail">>) @@ "FOUNDED" :> Scalar("1994") >>,
      << "INDUSTRY" :> List(<<"Cloud", "Retail">>),
         "YEARS" :> NumList(<<"1994", "2001">>) >> }

NoSummary    == [kind |-> "absent"]
EmptySummary == [kind |-> "empty"]
Summary(name, attributes) ==
    [kind |-> "map", MAIN_ENTITY |-> [NAME |-> name, ATTRIBUTES |-> attributes]]

Summaries ==
    {NoSummary, EmptySummary} \cup {Summary("Acme", a) : a \in AttributeLists}

\* event.get(field) is falsy: the field is missing or empty.
Falsy(v) == v.kind \in {"absent", "empty"}

ItemIds == <<"id1", "id2", "id3", "id4">>

\* event["output"]: missing, or the list of the first n references.
Outputs ==
    {[kind |-> "absent", refs |-> <<>>], [kind |-> "empty", refs |-> <<>>]}
      \cup {[kind |-> "list", refs |-> [i \in 1..n |-> ItemIds[i]]] : n \in 1..MaxRefs}

\* json.dumps(v): the text is held as the value it spells, frozen at the call.
Dumps(v) == [json |-> v]

\* ------------------------------------------------------ external answers
\* table.get_item and json.loads of its payload: ClientError, no Item, an
\* Item without "data", text that is no JSON, JSON that is no object, an object.
GetKinds == {"ClientError", "NoItem", "NoData", "BadJSON", "NonObject", "Object"}
NodeIds == {"node-1"}
Times == {1000}

VARIABLES
    event,          \* the event object; Summary is mutated through its aliases
    summary0,       \* history: Summary as received
    pc,             \* "start", "resolve", "pairs", "graph", "upsert", "persist", "done", "fatal"
    err,            \* the exception that ended the invocation, or "none"
    stage,          \* where it was raised: "validate", "fetch", "pair", "graph", "none"
    refIdx,         \* position of the loop over event["output"]
    data,           \* the decoded record being iterated
    pairIdx,        \* position of the loop over data
    results,        \* dict first_char -> list, as buckets in insertion order
    allEdges,
    fetches,        \* history: one entry per get_item call
    seen,           \* history: pairs the inner loop has taken, in order
    connCalls,      \* history: GraphConnect calls
    connOpened,     \* history: GraphConnect calls that returned a connection
    connClosed,     \* history: connection.close() calls
    upserts,        \* history: arguments of each getOrCreateID call
    main_entity_id,
    bucketIdx,      \* position of the loop over results
    idCount,        \* uuid4 calls so far
    uuids,
    puts,           \* history: one entry per put_item call
    table,          \* items put_item stored, in order
    returned        \* the value returned, once pc = "done"

vars == <<event, summary0, pc, err, stage, refIdx, data, pairIdx, results,
          allEdges, fetches, seen, connCalls, connOpened, connClosed, upserts,
          main_entity_id, bucketIdx, idCount, uuids, puts, table, returned>>

Init ==
    /\ \E s \in Summaries, o \in Outputs :
          /\ event = [Summary |-> s, output |-> o]
          /\ summary0 = s
    /\ pc = "start"
    /\ err = "none"
    /\ stage = "none"
    /\ refIdx = 0
    /\ data = <<>>
    /\ pairIdx = 0
    /\ results = <<>>
    /\ allEdges = <<>>
    /\ fetches = <<>>
    /\ seen = <<>>
    /\ connCalls = 0
    /\ connOpened = 0
    /\ connClosed = 0
    /\ upserts = <<>>
    /\ main_entity_id = "unset"
    /\ bucketIdx = 0
    /\ idCount = 0
    /\ uuids = <<>>
    /\ puts = <<>>
    /\ table = <<>>
    /\ returned = <<>>

main_entity_name == event.Summary.MAIN_ENTITY.NAME
refs == event.output.refs

\* The outer handler, index.py:144-146: log and re-raise.
Fatal(e, at) ==
    /\ pc' = "fatal"
    /\ err' = e
    /\ stage' = at

\* Faulty variant of MissingFields: only Summary is checked.
MissingFields_SummaryOnly(ev) == Falsy(ev.Summary)

\* index.py:34: not event.get("Summary") or not event.get("output").
MissingFields(ev) == Falsy(ev.Summary) \/ Falsy(ev.output)

\* index.py:31-40.
Validate ==
    /\ pc = "start"
    /\ IF MissingFields(event)
       THEN /\ Fatal("ValueError", "validate")
            /\ UNCHANGED refIdx
       ELSE /\ pc' = "resolve"
            /\ refIdx' = 1
            /\ UNCHANGED <<err, stage>>
    /\ UNCHANGED <<event, summary0, data, pairIdx, results, allEdges, fetches,
                   seen, connCalls, connOpened, connClosed, upserts,
                   main_entity_id, bucketIdx, idCount, uuids, puts, table, returned>>

\* Faulty variant of NextRef: the loop is left after one reference.
NextRef_LeaveEarly ==
    /\ refIdx' = refIdx + 1
    /\ pc' = "graph"
    /\ data' = <<>>
    /\ pairIdx' = 0

\* The reference loop moves on: the next reference, or the Neptune step.
NextRef ==
    /\ refIdx' = refIdx + 1
    /\ pc' = IF refIdx + 1 > Len(refs) THEN "graph" ELSE "resolve"
    /\ data' = <<>>
    /\ pairIdx' = 0

\* Faulty variant of FetchOutcome: response["Item"] is read without the check of
\* line 56.
FetchOutcome_NoItemCheck(kind) ==
    CASE kind = "ClientError" -> "skip"
      [] kind = "NoItem" -> "KeyError"
      [] kind = "BadJSON" -> "skip"
      [] kind = "NoData" -> "KeyError"
      [] kind = "NonObject" -> "TypeError"
      [] kind = "Object" -> "iterate"

\* index.py:54-60 and 82-87 on one answer of the store: "skip" (continue),
\* "iterate" (the record is decoded), or the exception that leaves the loop.
\* response["Item"]["data"] raises KeyError on an Item without "data";
\* iterating a decoded value that is no object raises TypeError.
FetchOutcome(kind) ==
    CASE kind = "ClientError" -> "skip"
      [] kind = "NoItem" -> "skip"
      [] kind = "BadJSON" -> "skip"
      [] kind = "NoData" -> "KeyError"
      [] kind = "NonObject" -> "TypeError"
      [] kind = "Object" -> "iterate"

\* index.py:51-60: get_item for one reference and json.loads of its payload.
FetchRef ==
    /\ pc = "resolve"
    /\ \E kind \in GetKinds, d \in Objects :
          /\ kind # "Object" => d = <<>>
          /\ Len(seen) + Len(d) <= MaxSeen
          /\ fetches' = Append(fetches, [ref |-> refIdx, id |-> refs[refIdx],
                                         kind |-> kind, data |-> d])
          /\ LET out == FetchOutcome(kind) IN
             IF out = "skip" \/ (out = "iterate" /\ d = <<>>)
               THEN NextRef /\ UNCHANGED <<err, stage>>
             ELSE IF out = "iterate"
               THEN /\ data' = d
                    /\ pairIdx' = 1
                    /\ pc' = "pairs"
                    /\ UNCHANGED <<refIdx, err, stage>>
             ELSE Fatal(out, "fetch") /\ UNCHANGED <<refIdx, data, pairIdx>>
    /\ UNCHANGED <<event, summary0, results, allEdges, seen, connCalls,
                   connOpened, connClosed, upserts, main_entity_id, bucketIdx,
                   idCount, uuids, puts, table, returned>>

\* The inner loop moves on: the next key of data, or the next reference.
NextPair ==
    IF pairIdx < Len(data)
    THEN /\ pairIdx' = pairIdx + 1
         /\ UNCHANGED <<pc, refIdx, data>>
    ELSE NextRef

\* index.py:64-80: one key of the decoded record.
ProcessPair ==
    /\ pc = "pairs"
    /\ LET key == data[pairIdx].key
           desc == data[pairIdx].desc
       IN /\ seen' = Append(seen, [ref |-> refIdx, key |-> key, desc |-> desc])
          /\ IF key = <<>>
             THEN /\ NextPair
                  /\ UNCHANGED <<results, allEdges, err, stage>>
             ELSE LET step == EdgeStep(key, desc, main_entity_name) IN
                  /\ results' = AddToBucket(results, BucketKey(key), Pair(key, desc))
                  /\ allEdges' = allEdges \o step.edges
                  /\ IF step.err = "none"
                     THEN NextPair /\ UNCHANGED <<err, stage>>
                     ELSE Fatal(step.err, "pair") /\ UNCHANGED <<refIdx, data, pairIdx>>
    /\ UNCHANGED <<event, summary0, fetches, connCalls, connOpened, connClosed, upserts,
                   main_entity_id, bucketIdx, idCount, uuids, puts, table, returned>>

\* Faulty variant of GraphFailed: the exception is logged and not re-raised.
GraphFailed_Swallowed(e) ==
    /\ pc' = "persist"
    /\ bucketIdx' = 1
    /\ UNCHANGED <<err, stage, main_entity_id>>

\* index.py:110-112: the Neptune step logs the exception and re-raises it.
GraphFailed(e) ==
    /\ Fatal(e, "graph")
    /\ UNCHANGED <<main_entity_id, bucketIdx>>

\* index.py:92: GraphConnect() returns a connection or raises.
Connect ==
    /\ pc = "graph"
    /\ connCalls' = connCalls + 1
    /\ \/ /\ connOpened' = connOpened + 1
          /\ pc' = "upsert"
          /\ UNCHANGED <<err, stage, main_entity_id, bucketIdx>>
       \/ /\ GraphFailed("GraphConnectError")
          /\ UNCHANGED connOpened
    /\ UNCHANGED <<event, summary0, refIdx, data, pairIdx, results, allEdges,
                   fetches, seen, connClosed, upserts, idCount, uuids, puts,
                   table, returned>>

\* index.py:96-101: the loop assigns into the attribute records of the
\* Summary itself; processed_attributes lists those same records.
Flatten(ev) ==
    [ev EXCEPT !.Summary.MAIN_ENTITY.ATTRIBUTES =
        [i \in DOMAIN @ |-> FlattenAttribute(@[i])]]

\* The loop of index.py:96-101 raises: a join meets a list it cannot join.
FlattenRaises(ev) ==
    \E i \in DOMAIN ev.Summary.MAIN_ENTITY.ATTRIBUTES :
        JoinRaises(ev.Summary.MAIN_ENTITY.ATTRIBUTES[i])

\* The event the loop leaves behind when it raises: the records before the
\* raising one are flattened.  (The raising records of the model hold one
\* list only, so nothing of them was assigned.)
FlattenUntilRaise(ev) ==
    [ev EXCEPT !.Summary.MAIN_ENTITY.ATTRIBUTES =
        [i \in DOMAIN @ |->
            IF \A j \in 1..i : ~JoinRaises(@[j])
            THEN FlattenAttribute(@[i]) ELSE @[i]]]

\* index.py:96-107: flatten the attributes, getOrCreateID, connection.close().
Upsert ==
    /\ pc = "upsert"
    /\ IF FlattenRaises(event)
       THEN /\ event' = FlattenUntilRaise(event)
            /\ GraphFailed("TypeError")
            /\ UNCHANGED <<upserts, connClosed>>
       ELSE /\ event' = Flatten(event)
            /\ upserts' = Append(upserts,
                  [label |-> "COMPANY", name |-> main_entity_name,
                   attributes |-> event'.Summary.MAIN_ENTITY.ATTRIBUTES,
                   edges |-> allEdges, buckets |-> Len(results),
                   fetched |-> Len(fetches), written |-> Len(puts)])
            /\ \/ \E id \in NodeIds :
                    /\ main_entity_id' = id
                    /\ connClosed' = connClosed + 1
                    /\ pc' = "persist"
                    /\ bucketIdx' = 1
                    /\ UNCHANGED <<err, stage>>
               \/ /\ GraphFailed("GraphUpsertError")
                  /\ UNCHANGED connClosed
    /\ UNCHANGED <<summary0, refIdx, data, pairIdx, results, allEdges, fetches,
                   seen, connCalls, connOpened, idCount, uuids, puts, table, returned>>

\* The edges the pairs of s give, in the order of s.
RECURSIVE EdgesOf(_, _)
EdgesOf(s, name) ==
    IF s = <<>> THEN <<>>
    ELSE (IF Head(s).key = <<>> THEN <<>>
          ELSE EdgeStep(Head(s).key, Head(s).desc, name).edges)
           \o EdgesOf(Tail(s), name)

\* Faulty variant of Item: the record carries the edges of its own bucket only.
Item_OwnEdges(id, bucket, now) ==
    [id |-> id,
     main_entity |-> main_entity_name,
     key |-> bucket.key,
     data |-> Dumps(bucket.items),
     summary |-> Dumps(event.Summary),
     main_entity_all_edges |-> Dumps(EdgesOf(bucket.items, main_entity_name)),
     main_entity_id |-> main_entity_id,
     ttl_timestamp |-> now + TTL]

\* index.py:119-131: the item of one bucket.
Item(id, bucket, now) ==
    [id |-> id,
     main_entity |-> main_entity_name,
     key |-> bucket.key,
     data |-> Dumps(bucket.items),
     summary |-> Dumps(event.Summary),
     main_entity_all_edges |-> Dumps(allEdges),
     main_entity_id |-> main_entity_id,
     ttl_timestamp |-> now + TTL]

\* Faulty variant of AfterPut: the id is appended before put_item is called.
AfterPut_AppendFirst(ids, id, ok) == Append(ids, id)

\* index.py:133-134 on one answer of put_item: the id is appended to uuids
\* only when put_item returned.
AfterPut(ids, id, ok) == IF ok THEN Append(ids, id) ELSE ids

\* Faulty variant of NextBucket: a failed write leaves the loop.
NextBucket_Break(i, n, ok) == IF ok THEN i + 1 ELSE n + 1

\* Faulty variant of NextBucket: a failed write is tried a second time.
NextBucket_RetryOnce(i, n, ok) ==
    IF ok \/ (puts # <<>> /\ puts[Len(puts)].key = results[i].key)
    THEN i + 1 ELSE i

\* index.py:117 and 137-139: after a write, stored or failed, the loop goes
\* on with the next of the n buckets.
NextBucket(i, n, ok) == i + 1

\* index.py:117-139: one bucket: uuid4, put_item, which stores the item or
\* raises ClientError.
PutBucket ==
    /\ pc = "persist"
    /\ bucketIdx <= Len(results)
    /\ LET id == idCount + 1 IN
       /\ idCount' = id
       /\ \E now \in Times, ok \in BOOLEAN :
            LET item == Item(id, results[bucketIdx], now) IN
            /\ puts' = Append(puts, [key |-> results[bucketIdx].key, id |-> id, ok |-> ok])
            /\ table' = IF ok THEN Append(table, item) ELSE table
            /\ uuids' = AfterPut(uuids, id, ok)
            /\ bucketIdx' = NextBucket(bucketIdx, Len(results), ok)
    /\ UNCHANGED <<event, summary0, pc, err, stage, refIdx, data, pairIdx,
                   results, allEdges, fetches, seen, connCalls, connOpened,
                   connClosed, upserts, main_entity_id, returned>>

\* index.py:141-142: return uuids.
Return ==
    /\ pc = "persist"
    /\ bucketIdx > Len(results)
    /\ pc' = "done"
    /\ returned' = uuids
    /\ UNCHANGED <<event, summary0, err, stage, refIdx, data, pairIdx, results,
                   allEdges, fetches, seen, connCalls, connOpened, connClosed,
                   upserts, main_entity_id, bucketIdx, idCount, uuids, puts, table>>

Next ==
    \/ Validate
    \/ FetchRef
    \/ ProcessPair
    \/ Connect
    \/ Upsert
    \/ PutBucket
    \/ Return

Spec == Init /\ [][Next]_vars

\* ------------------------------------------ create_edge on its own
\* The handler stands before the only pair of its first record; the pair
\* has a recognized TYPE, with a qualifier list of up to MaxVals values or
\* with no qualifier field, and the main entity has one of two names.
QualifierValues == {"CEO", "Parts"}
QualifierLists == UNION { [1..n -> QualifierValues] : n \in 0..MaxVals }
EdgeDescs ==
    { Desc(TRUE, "str", t, Qualifier(t) :> vs) :
        t \in RecognizedTypes, vs \in QualifierLists }
      \cup { Desc(TRUE, "str", t, NoFields) : t \in RecognizedTypes }
EdgeKeys == {kBob, k3M, kElan}
EdgeNames == {"Acme", "Initech"}

EdgeInit ==
    /\ \E name \in EdgeNames, a \in AttributeLists, n \in 1..MaxRefs :
          /\ summary0 = Summary(name, a)
          /\ event = [Summary |-> summary0,
                      output |-> [kind |-> "list", refs |-> [i \in 1..n |-> ItemIds[i]]]]
    /\ \E key \in EdgeKeys, desc \in EdgeDescs : data = <<Pair(key, desc)>>
    /\ fetches = <<[ref |-> 1, id |-> ItemIds[1], kind |-> "Object", data |-> data]>>
    /\ pc = "pairs"
    /\ err = "none"
    /\ stage = "none"
    /\ refIdx = 1
    /\ pairIdx = 1
    /\ results = <<>>
    /\ allEdges = <<>>
    /\ seen = <<>>
    /\ connCalls = 0
    /\ connOpened = 0
    /\ connClosed = 0
    /\ upserts = <<>>
    /\ main_entity_id = "unset"
    /\ bucketIdx = 0
    /\ idCount = 0
    /\ uuids = <<>>
    /\ puts = <<>>
    /\ table = <<>>
    /\ returned = <<>>

EdgeNext == ProcessPair

EdgeSpec == EdgeInit /\ [][EdgeNext]_vars

\* ------------------------------------------------------ properties
Terminated == pc \in {"done", "fatal"}

\* The event as received passes the validation of line 34.
ValidBatch == ~Falsy(summary0) /\ ~Falsy(event.output)

\* Every reference of the batch has been fetched and was answered with a
\* stored record that decodes to an object.
AllResolved ==
    /\ Len(fetches) = Len(refs)
    /\ \A i \in DOMAIN fetches : fetches[i].kind = "Object"

\* Every reference fetched so far was unresolvable: no Item, a storage
\* error, or a payload that is no JSON.
AllUnresolvable ==
    \A i \in DOMAIN fetches : fetches[i].kind \in {"NoItem", "ClientError", "BadJSON"}

\* The Neptune step raised: GraphConnect returned no connection, or
\* getOrCreateID was called and the connection was not closed after it.
GraphRaised == connCalls > connOpened \/ Len(upserts) > connClosed

Recognized(desc) == desc.isMap /\ desc.tk = "str" /\ desc.TYPE \in RecognizedTypes

\* The ids of the writes that were stored, in the order of the writes.
RECURSIVE OkIds(_)
OkIds(ps) ==
    IF ps = <<>> THEN <<>>
    ELSE IF Head(ps).ok THEN <<Head(ps).id>> \o OkIds(Tail(ps))
    ELSE OkIds(Tail(ps))

\* C1: when Summary or output is missing or empty, the invocation ends with
\* the fatal ValueError of validation and has made no get_item call, no
\* GraphConnect or getOrCreateID call, and no put_item call.
C1_InvalidInputIsFatal ==
    (Falsy(summary0) \/ Falsy(event.output)) =>
        /\ pc \in {"start", "fatal"}
        /\ pc = "fatal" => (err = "ValueError" /\ stage = "validate")
        /\ fetches = <<>>
        /\ connCalls = 0
        /\ upserts = <<>>
        /\ puts = <<>>
        /\ table = <<>>

C1_Witness ==
    /\ pc = "fatal"
    /\ stage = "validate"
    /\ summary0.kind = "absent"
    /\ event.output.kind = "list"

\* C2: when GraphConnect or getOrCreateID raises, the invocation ends with a
\* fatal error and no Result Record is written, whatever buckets and edges
\* were computed.
C2_GraphFailureWritesNothing ==
    GraphRaised =>
        /\ pc = "fatal"
        /\ stage = "graph"
        /\ puts = <<>>
        /\ table = <<>>
        /\ uuids = <<>>

C2_Witness ==
    /\ pc = "fatal"
    /\ err = "GraphUpsertError"
    /\ Len(results) = 2
    /\ allEdges # <<>>

\* C3 (as claimed): no failure tied to one reference - a missing record, a
\* payload that does not decode or is malformed, a storage error - ends
\* the invocation with a fatal error.
C3_ReferenceFailureNeverAborts ==
    ~(pc = "fatal" /\ stage \in {"fetch", "pair"})

C6_UnknownTypeNeverRaises ==
    ~(/\ pc = "fatal"
      /\ stage = "pair"
      /\ seen[Len(seen)].desc.isMap
      /\ ~Recognized(seen[Len(seen)].desc))

\* C7 (as claimed): every pair with a non-empty key and a recognized TYPE
\* that the loop has taken has appended exactly one edge, so the edge list
\* is as long as the number of such pairs.
C7_OneEdgePerRecognizedPair ==
    Len(allEdges) =
        Cardinality({i \in DOMAIN seen :
                        seen[i].key # <<>> /\ Recognized(seen[i].desc)})

\* C8 (as claimed): an invocation that has ended has closed every graph
\* connection it opened.
C8_ConnectionReleased ==
    Terminated => connClosed = connOpened

\* C9 (as claimed): the Summary of the event is never modified, and the
\* summary field of every Result Record is the serialization of the Summary
\* as received.
C9_SummaryReadOnly ==
    /\ event.Summary = summary0
    /\ \A i \in DOMAIN table : table[i].summary = Dumps(summary0)

\* C10: when every reference of a valid batch is unresolvable, no bucket
\* and no edge is produced, nothing but the Neptune step can end the
\* invocation with a fatal error, and once the Neptune step has succeeded
\* the invocation writes nothing and returns the empty sequence.
C10_EmptyResultIsSuccess ==
    (ValidBatch /\ AllUnresolvable) =>
        /\ results = <<>>
        /\ allEdges = <<>>
        /\ pc = "fatal" => stage = "graph"
        /\ connClosed > 0 => (pc \in {"persist", "done"} /\ err = "none" /\ puts = <<>>)
        /\ pc = "done" => returned = <<>>

C10_Witness ==
    /\ pc = "done"
    /\ Len(refs) = 2
    /\ Len(fetches) = 2
    /\ AllUnresolvable
    /\ upserts # <<>>
    /\ returned = <<>>

\* The batch of the scenario: main entity "Acme" and a single reference,
\* answered with the record {"Bob": {"TYPE": "DIRECTOR", "ROLE": ["CEO"]}},
\* whose processing is over.
BobScenario ==
    /\ ValidBatch
    /\ main_entity_name = "Acme"
    /\ Len(refs) = 1
    /\ Len(fetches) = 1
    /\ fetches[1].kind = "Object"
    /\ fetches[1].data = <<Pair(kBob, dDirector)>>
    /\ pc \notin {"resolve", "pairs"}

\* C11: for main entity "Acme" and a single reference resolving to
\* {"Bob": {"TYPE": "DIRECTOR", "ROLE": ["CEO"]}}, there is exactly one
\* bucket, keyed "B", holding that one pair, the edge list is exactly
\* ["Bob is a director of (ROLE: CEO) Acme"], and no step of reference
\* processing raised.
C11_BobScenario ==
    BobScenario =>
        /\ results = <<[key |-> "B", items |-> <<Pair(kBob, dDirector)>>]>>
        /\ allEdges = <<"Bob is a director of (ROLE: CEO) Acme">>
        /\ stage \notin {"fetch", "pair"}
        /\ \A i \in DOMAIN table :
              /\ table[i].key = "B"
              /\ table[i].data = Dumps(<<Pair(kBob, dDirector)>>)
              /\ table[i].main_entity_all_edges =
                    Dumps(<<"Bob is a director of (ROLE: CEO) Acme">>)

C11_Witness ==
    /\ BobScenario
    /\ pc = "done"
    /\ Len(table) = 1
    /\ table[1].key = "B"

\* C12 (as claimed): at every point every bucket key, in the handler and in
\* the Result Records written, is one of the letters A-Z or "#".
C12_BucketKeyIsAZOrHash ==
    /\ \A i \in DOMAIN results : results[i].key \in Range(UpperCase) \cup {"#"}
    /\ \A i \in DOMAIN table : table[i].key \in Range(UpperCase) \cup {"#"}

\* The pairs of the records decoded so far, record after record.
RECURSIVE RecordPairs(_)
RecordPairs(fs) ==
    IF fs = <<>> THEN <<>>
    ELSE (IF Head(fs).kind = "Object" THEN Head(fs).data ELSE <<>>)
           \o RecordPairs(Tail(fs))

\* The pairs the inner loop has taken, in the order it took them.
TakenPairs == [i \in DOMAIN seen |-> Pair(seen[i].key, seen[i].desc)]

\* Reference processing is over: the loop over the references ran to its end.
ReferencesProcessed ==
    \/ pc \in {"graph", "upsert", "persist", "done"}
    \/ pc = "fatal" /\ stage = "graph"

\* C13: the buckets partition the pairs taken from the resolved records.
\* No two buckets share a key, and every pair a bucket holds has a
\* non-empty entity key whose first character, upper-cased if alphabetic
\* and "#" otherwise, is the key of that bucket, so a pair is in no other
\* bucket and a pair with an empty entity key is in none; every pair a
\* bucket holds was taken, and every pair taken is a pair of a resolved
\* record; a pair with a non-empty entity key is held by its bucket once
\* for each time it was taken.  When reference processing is over the
\* pairs taken are all the pairs of all the resolved records, in order.
C13_BucketsPartitionPairs ==
    /\ Cardinality({results[i].key : i \in DOMAIN results}) = Len(results)
    /\ \A i \in DOMAIN results : \A j \in DOMAIN results[i].items :
          /\ results[i].items[j].key # <<>>
          /\ BucketKey(results[i].items[j].key) = results[i].key
          /\ \E k \in DOMAIN seen :
                /\ seen[k].key = results[i].items[j].key
                /\ seen[k].desc = results[i].items[j].desc
    /\ \A k \in DOMAIN seen :
          /\ seen[k].ref \in DOMAIN fetches
          /\ fetches[seen[k].ref].kind = "Object"
          /\ \E j \in DOMAIN fetches[seen[k].ref].data :
                /\ fetches[seen[k].ref].data[j].key = seen[k].key
                /\ fetches[seen[k].ref].data[j].desc = seen[k].desc
          /\ seen[k].key # <<>> =>
                \E i \in DOMAIN results :
                   /\ results[i].key = BucketKey(seen[k].key)
                   /\ Cardinality({j \in DOMAIN results[i].items :
                                     /\ results[i].items[j].key = seen[k].key
                                     /\ results[i].items[j].desc = seen[k].desc})
                        = Cardinality({m \in DOMAIN seen :
                                         /\ seen[m].key = seen[k].key
                                         /\ seen[m].desc = seen[k].desc})
    /\ ReferencesProcessed =>
          /\ Len(fetches) = Len(refs)
          /\ TakenPairs = RecordPairs(fetches)

C13_Witness ==
    /\ pc = "done"
    /\ Len(refs) = 2
    /\ AllResolved
    /\ Len(seen) = 3
    /\ \E k \in DOMAIN seen : seen[k].key = <<>>
    /\ Len(results) = 1
    /\ Len(results[1].items) = 2
    /\ results[1].items[1].key # results[1].items[2].key
    /\ table # <<>>

\* The pairs of s that fall in the bucket keyed bk, in the order of s.
InBucket(s, bk) ==
    SelectSeq(s, LAMBDA p : p.key # <<>> /\ BucketKey(p.key) = bk)

\* C14: within every bucket the pairs stand in batch-wide processing
\* order - earlier reference first, and within one stored record earlier
\* key first - and the data field of every Result Record written holds
\* its bucket's pairs in that same order.
C14_BucketKeepsProcessingOrder ==
    /\ LET taken == TakenPairs
       IN /\ \A i \in DOMAIN results :
                results[i].items = InBucket(taken, results[i].key)
          /\ \A i \in DOMAIN table :
                table[i].data = Dumps(InBucket(taken, table[i].key))
    /\ \A a \in DOMAIN seen :
          a < Len(seen) => seen[a].ref <= seen[a + 1].ref

C14_Witness ==
    /\ pc = "done"
    /\ Len(seen) = 3
    /\ seen[1].ref = 1
    /\ seen[2].ref = 1
    /\ seen[3].ref = 2
    /\ \E i \in DOMAIN table :
          /\ Len(table[i].data.json) = 2
          /\ table[i].data.json[1] = TakenPairs[1]
          /\ table[i].data.json[2] = TakenPairs[3]
          /\ TakenPairs[1] # TakenPairs[3]

\* The flattening loop raises on the Summary as received.
AttributesRaise ==
    \E i \in DOMAIN summary0.MAIN_ENTITY.ATTRIBUTES :
        JoinRaises(summary0.MAIN_ENTITY.ATTRIBUTES[i])

\* C15 (as claimed): an invocation that passed validation, finished
\* reference processing and has ended has called getOrCreateID exactly once.
C15_UpsertExactlyOnce ==
    (ValidBatch /\ ReferencesProcessed /\ Terminated) => Len(upserts) = 1

\* C15 (amended): getOrCreateID is called at most once, after every
\* reference has been processed and before any Result Record is written,
\* with label "COMPANY", the main entity name, attributes that hold no list
\* any more and the full edge list.  It is not called when GraphConnect
\* raises or when flattening raises; in every other invocation that has
\* left the Neptune step, and so in every one that writes a Result Record
\* or returns, it was called exactly once, buckets or no buckets.
C15_UpsertOnceBeforeWrites ==
    /\ Len(upserts) <= 1
    /\ \A i \in DOMAIN upserts :
          /\ upserts[i].label = "COMPANY"
          /\ upserts[i].name = summary0.MAIN_ENTITY.NAME
          /\ \A a \in DOMAIN upserts[i].attributes :
                \A k \in DOMAIN upserts[i].attributes[a] :
                    upserts[i].attributes[a][k].kind = "str"
          /\ upserts[i].edges = allEdges
          /\ upserts[i].fetched = Len(refs)
          /\ upserts[i].written = 0
          /\ upserts[i].buckets = Len(results)
    /\ (connCalls > connOpened \/ (ValidBatch /\ AttributesRaise)) => upserts = <<>>
    /\ (connOpened > 0 /\ ~AttributesRaise /\ pc # "upsert") => Len(upserts) = 1
    /\ (pc \in {"persist", "done"} \/ puts # <<>>) => Len(upserts) = 1

\* The upsert was called although no bucket was produced, after both
\* references of the batch had been fetched.
C15_Witness ==
    /\ pc = "done"
    /\ Len(refs) = 2
    /\ Len(upserts) = 1
    /\ upserts[1].buckets = 0
    /\ upserts[1].fetched = 2
    /\ results = <<>>

\* C16: the attribute list handed to getOrCreateID has the attribute records
\* of the Summary as received, as many and in the same order, each with the
\* same attribute names; a value that was a list is the string of its
\* elements joined by commas, and a scalar value is the value received.
C16_AttributesFlattened ==
    \A i \in DOMAIN upserts :
        LET passed == upserts[i].attributes
            received == summary0.MAIN_ENTITY.ATTRIBUTES
        IN /\ Len(passed) = Len(received)
           /\ \A a \in DOMAIN received :
                 /\ DOMAIN passed[a] = DOMAIN received[a]
                 /\ \A k \in DOMAIN received[a] :
                       IF received[a][k].kind = "str"
                       THEN passed[a][k] = received[a][k]
                       ELSE /\ received[a][k].kind = "list"
                            /\ passed[a][k].kind = "str"
                            /\ passed[a][k].s = Join(received[a][k].l)

\* The upsert received two records, one of them with a list of two values
\* and a scalar.
C16_Witness ==
    /\ Len(upserts) = 1
    /\ Len(summary0.MAIN_ENTITY.ATTRIBUTES) = 2
    /\ upserts[1].attributes[1] = "HQ" :> Scalar("Seattle")
    /\ upserts[1].attributes[2]["INDUSTRY"] = Scalar("Cloud,Retail")
    /\ upserts[1].attributes[2]["FOUNDED"] = Scalar("1994")
    /\ summary0.MAIN_ENTITY.ATTRIBUTES[2]["INDUSTRY"].kind = "list"

\* C17: every Result Record written carries the main entity name of the
\* batch, the identifier the upsert returned and the full edge list - the
\* edges of all pairs taken from the records of all the references, not
\* those of its own bucket - so all records of one invocation agree on the
\* three; its key and data are the key and the contents of one bucket, a
\* different bucket for each record.
C17_RecordsShareEntityFields ==
    /\ table # <<>> =>
          /\ main_entity_id \in NodeIds
          /\ Len(fetches) = Len(refs)
          /\ allEdges = EdgesOf(seen, summary0.MAIN_ENTITY.NAME)
    /\ \A i \in DOMAIN table :
          /\ table[i].main_entity = summary0.MAIN_ENTITY.NAME
          /\ table[i].main_entity_id = main_entity_id
          /\ table[i].main_entity_all_edges = Dumps(allEdges)
          /\ \E b \in DOMAIN results :
                /\ table[i].key = results[b].key
                /\ table[i].data = Dumps(results[b].items)
    /\ Cardinality({table[i].key : i \in DOMAIN table}) = Len(table)
    /\ table # <<>> => Len(upserts) = 1

\* Two records were written, for two buckets, and the batch gave an edge
\* that belongs to one of the buckets only.
C17_Witness ==
    /\ pc = "done"
    /\ Len(table) = 2
    /\ Len(allEdges) = 1
    /\ Len(fetches) = 2
    /\ table[1].key # table[2].key
    /\ table[1].main_entity_all_edges.json = allEdges
    /\ table[2].main_entity_all_edges.json = allEdges

\* The relation word of each recognized type.
Relation(type) ==
    CASE type = "CUSTOMER" -> "customer"
      [] type = "SUPPLIER" -> "supplier"
      [] type = "COMPETITOR" -> "competitor"
      [] type = "DIRECTOR" -> "director"

\* "<key> is a <relation> of (<label>:<sep><values>) <name>" for one pair.
EdgeFormat(pair, sep, name) ==
    Text(pair.key) \o " is a " \o Relation(pair.desc.TYPE) \o " of ("
      \o Qualifier(pair.desc.TYPE) \o ":" \o sep
      \o Join(pair.desc.quals[Qualifier(pair.desc.TYPE)])
      \o ") " \o name

\* C18 (as claimed): every edge produced for a pair of a recognized type
\* is "<key> is a <relation> of (<label>:<values>) <name>", the values
\* joined by commas and nothing between the colon and the first value.
C18_NothingAfterColon ==
    \A i \in DOMAIN allEdges :
        allEdges[i] = EdgeFormat(TakenPairs[i], "", summary0.MAIN_ENTITY.NAME)

\* C18 (amended): every string create_edge returns for a pair of a
\* recognized type is "<key> is a <relation> of (<label>:<values>) <name>",
\* with relation and label customer/PRODUCTS_USED, supplier/RELATIONSHIP,
\* competitor/COMPETING_IN, director/ROLE and the values joined by commas;
\* nothing stands between the colon and the first value for CUSTOMER,
\* SUPPLIER and COMPETITOR, one space for DIRECTOR.  A string is returned
\* whenever the qualifier list is there, and it is the same for the same
\* (key, descriptor, name) whatever else the batch holds.
C18_EdgeFormat ==
    seen # <<>> =>
        LET pair == TakenPairs[1]
            name == summary0.MAIN_ENTITY.NAME
        IN IF Qualifier(pair.desc.TYPE) \in DOMAIN pair.desc.quals
           THEN /\ err = "none"
                /\ allEdges =
                     << EdgeFormat(pair,
                                   IF pair.desc.TYPE = "DIRECTOR" THEN " " ELSE "",
                                   name) >>
           ELSE allEdges = <<>>

\* create_edge returned the edge of a DIRECTOR with two roles.
C18_Witness ==
    /\ seen # <<>>
    /\ seen[1].desc.TYPE = "DIRECTOR"
    /\ allEdges = <<"3M is a director of (ROLE: CEO,Parts) Initech">>
    /\ Len(seen[1].desc.quals["ROLE"]) = 2

\* C19: nothing is retried.  The get_item calls are one for each reference
\* reached, in the order of the reference list, whatever the store
\* answered; GraphConnect and getOrCreateID are each called at most once;
\* the put_item calls are one for each bucket reached, in bucket order,
\* whether the write was stored or failed.
C19_NoRetry ==
    /\ Len(fetches) <= Len(refs)
    /\ \A i \in DOMAIN fetches :
          /\ fetches[i].ref = i
          /\ fetches[i].id = refs[i]
    /\ connCalls <= 1
    /\ Len(upserts) <= 1
    /\ Len(puts) <= Len(results)
    /\ \A i \in DOMAIN puts : puts[i].key = results[i].key /\ puts[i].id = i
    /\ Cardinality({results[i].key : i \in DOMAIN results}) = Len(results)
    /\ idCount = Len(puts)

\* The first reference met a storage error, both writes failed, and the
\* invocation returned after two fetches, one upsert and two writes.
C19_Witness ==
    /\ pc = "done"
    /\ Len(fetches) = 2
    /\ fetches[1].kind = "ClientError"
    /\ Len(upserts) = 1
    /\ Len(puts) = 2
    /\ ~puts[1].ok
    /\ ~puts[2].ok

====
